---- MODULE Spec2Model ----
(***************************************************************************)
(* Model of the Sarek helper wrapper (wrapper/sarek/run.py and             *)
(* wrapper/sarek/check.py).                                                *)
(*                                                                         *)
(* The process is single threaded.  Its state is the set of Sarek objects  *)
(* constructed so far (each holding a config with the fields tsv and       *)
(* mappedfiles), everything written so far to standard output and to the   *)
(* logging sink (one ordered sequence of output events), and the exit      *)
(* status of the process: the empty sequence while it runs, <<1>> once     *)
(* sys.exit(1) has been called.  `history' is the sequence of calls made   *)
(* so far with their inputs and outcomes.                                  *)
(*                                                                         *)
(* The value returned by the external invocation in Sarek.map is an input  *)
(* of the call: it is truthy (success) or falsy (failure).                 *)
(*                                                                         *)
(* run.py is read by its evident meaning: the config literal of __init__   *)
(* (lines 16-19) lacks a comma and quotes, config fields are read as       *)
(* attributes, and subprocess.check (line 24) is not a function of the     *)
(* standard library.  The model takes config to be a record with the two   *)
(* fields and the invocation to be a call that returns a success flag.     *)
(***************************************************************************)
EXTENDS Integers, Sequences, FiniteSets, TLC

VARIABLES runners, events, exitStatus, history

vars == <<runners, events, exitStatus, history>>

\* ---------------------------------------------------------------- bounds
MaxCalls == 4
MaxRunners == 2

RunnerIds == 1..MaxRunners
Paths == {"samples.tsv", "other.tsv"}

\* ------------------------------------------------------------- constants
None == "<None>"
Running == <<>>
SomethingNew == "something new"
SomePath == "some path"
HelloWorld == "hello world"
Loud == "THIS IS LOUD"
NeedsMapped == "Annotation needs mapped files"
NextflowMsg == "Nextflow not installed"
SingularityMsg == "Singularity not installed"

\* ---------------------------------------------------------- output sinks
print(ev, s) == Append(ev, [chan |-> "stdout", msg |-> s])

logging_critical(ev, s) == Append(ev, [chan |-> "critical", msg |-> s])

\* ------------------------------------------------------------- check.py
\* Variant: the sub-check reports the tool as missing.
check_nextflow_false(ev) ==
    [events |-> logging_critical(ev, NextflowMsg), ret |-> FALSE]

check_nextflow(ev) ==
    [events |-> logging_critical(ev, NextflowMsg), ret |-> TRUE]

check_singularity(ev) ==
    [events |-> logging_critical(ev, SingularityMsg), ret |-> TRUE]

\* Variant: the verbosity test is inverted (`if quiet:').
check_loud_when_quiet(quiet, ev) ==
    LET e1 == print(ev, HelloWorld)
        e2 == IF quiet THEN print(e1, Loud) ELSE e1
        nf == check_nextflow(e2)
        sg == IF nf.ret THEN check_singularity(nf.events)
                        ELSE [events |-> nf.events, ret |-> FALSE]
        failed == IF ~nf.ret THEN TRUE ELSE ~sg.ret
    IN  [events |-> sg.events,
         exit |-> IF failed THEN <<1>> ELSE Running,
         nfRet |-> nf.ret, sgRet |-> sg.ret]

\* Variant: the negations are lost (`if check_nextflow() or
\* check_singularity():'), so the process exits when a sub-check passes.
check_exit_on_pass(quiet, ev) ==
    LET e1 == print(ev, HelloWorld)
        e2 == IF ~quiet THEN print(e1, Loud) ELSE e1
        nf == check_nextflow(e2)
        sg == IF ~nf.ret THEN check_singularity(nf.events)
                         ELSE [events |-> nf.events, ret |-> FALSE]
        failed == IF nf.ret THEN TRUE ELSE sg.ret
    IN  [events |-> sg.events,
         exit |-> IF failed THEN <<1>> ELSE Running,
         nfRet |-> nf.ret, sgRet |-> sg.ret]

\* `not check_nextflow() or not check_singularity()' short-circuits: the
\* second sub-check runs only when the first one returned true.
check(quiet, ev) ==
    LET e1 == print(ev, HelloWorld)
        e2 == IF ~quiet THEN print(e1, Loud) ELSE e1
        nf == check_nextflow(e2)
        sg == IF nf.ret THEN check_singularity(nf.events)
                        ELSE [events |-> nf.events, ret |-> FALSE]
        failed == IF ~nf.ret THEN TRUE ELSE ~sg.ret
    IN  [events |-> sg.events,
         exit |-> IF failed THEN <<1>> ELSE Running,
         nfRet |-> nf.ret, sgRet |-> sg.ret]

\* --------------------------------------------------------------- run.py
\* Variant: the constructor fills mappedfiles with the sheet path.
Sarek_init_mapped(tsv_path) == [tsv |-> tsv_path, mappedfiles |-> tsv_path]

Sarek_init(tsv_path) == [tsv |-> tsv_path, mappedfiles |-> None]

\* Variant: the result of the external invocation is ignored.
map_always_sets(config, success, ev) ==
    LET e1 == print(ev, config.tsv)
        c1 == [config EXCEPT !.tsv = SomethingNew]
    IN  [config |-> [c1 EXCEPT !.mappedfiles = SomePath],
         events |-> e1, exit |-> Running]

\* Variant: the success test is inverted (`if not success:').
map_sets_on_failure(config, success, ev) ==
    LET e1 == print(ev, config.tsv)
        c1 == [config EXCEPT !.tsv = SomethingNew]
        c2 == IF ~success THEN [c1 EXCEPT !.mappedfiles = SomePath] ELSE c1
    IN  [config |-> c2, events |-> e1, exit |-> Running]

\* Variant: a failing invocation resets mappedfiles.
map_clears_on_failure(config, success, ev) ==
    LET e1 == print(ev, config.tsv)
        c1 == [config EXCEPT !.tsv = SomethingNew]
    IN  [config |-> [c1 EXCEPT !.mappedfiles =
                        IF success THEN SomePath ELSE None],
         events |-> e1, exit |-> Running]

map(config, success, ev) ==
    LET e1 == print(ev, config.tsv)
        c1 == [config EXCEPT !.tsv = SomethingNew]
        c2 == IF success THEN [c1 EXCEPT !.mappedfiles = SomePath] ELSE c1
    IN  [config |-> c2, events |-> e1, exit |-> Running]

\* Variant: the precondition failure is logged but the process goes on.
annotate_no_exit(config, ev) ==
    LET e1 == print(ev, config.tsv)
    IN  IF config.mappedfiles = None
        THEN [events |-> logging_critical(e1, NeedsMapped), exit |-> Running]
        ELSE [events |-> e1, exit |-> Running]

\* Variant: the precondition test is inverted (`is not None').
annotate_inverted(config, ev) ==
    LET e1 == print(ev, config.tsv)
    IN  IF config.mappedfiles # None
        THEN [events |-> logging_critical(e1, NeedsMapped), exit |-> <<1>>]
        ELSE [events |-> e1, exit |-> Running]

annotate(config, ev) ==
    LET e1 == print(ev, config.tsv)
    IN  IF config.mappedfiles = None
        THEN [events |-> logging_critical(e1, NeedsMapped), exit |-> <<1>>]
        ELSE [events |-> e1, exit |-> Running]

\* ------------------------------------------------------------ call trace
\* One entry per call: the operation, the runner it was made on (0 for the
\* module-level check), its input (flag: the external invocation's result
\* for map, quiet for check), where its output starts in `events', and how
\* it ended ("return": returned normally to the caller, "exit": sys.exit).
\* nfRet and sgRet are the values the two sub-checks returned to check
\* (sgRet is FALSE when check_singularity was not invoked).
CallRec(op, r, path, flag, outcome) ==
    [op |-> op, r |-> r, path |-> path, flag |-> flag,
     from |-> Len(events), outcome |-> outcome,
     nfRet |-> FALSE, sgRet |-> FALSE]

Outcome(res) == IF res.exit # Running THEN "exit" ELSE "return"

CanCall == exitStatus = Running /\ Len(history) < MaxCalls

\* --------------------------------------------------------------- actions
Init ==
    /\ runners = [r \in {} |-> Sarek_init("")]
    /\ events = <<>>
    /\ exitStatus = Running
    /\ history = <<>>

Construct(r, p) ==
    /\ CanCall
    /\ r \notin DOMAIN runners
    /\ runners' = [x \in DOMAIN runners \cup {r} |->
                     IF x = r THEN Sarek_init(p) ELSE runners[x]]
    /\ history' = Append(history, CallRec("init", r, p, FALSE, "return"))
    /\ UNCHANGED <<events, exitStatus>>

Map(r, success) ==
    /\ CanCall
    /\ r \in DOMAIN runners
    /\ LET res == map(runners[r], success, events)
       IN  /\ runners' = [runners EXCEPT ![r] = res.config]
           /\ events' = res.events
           /\ exitStatus' = res.exit
           /\ history' = Append(history,
                  CallRec("map", r, "", success, Outcome(res)))

Annotate(r) ==
    /\ CanCall
    /\ r \in DOMAIN runners
    /\ LET res == annotate(runners[r], events)
       IN  /\ events' = res.events
           /\ exitStatus' = res.exit
           /\ history' = Append(history,
                  CallRec("annotate", r, "", FALSE, Outcome(res)))
    /\ UNCHANGED runners

Check(quiet) ==
    /\ CanCall
    /\ LET res == check(quiet, events)
       IN  /\ events' = res.events
           /\ exitStatus' = res.exit
           /\ history' = Append(history,
                  [CallRec("check", 0, "", quiet, Outcome(res)) EXCEPT
                      !.nfRet = res.nfRet, !.sgRet = res.sgRet])
    /\ UNCHANGED runners

Next ==
    \/ \E r \in RunnerIds, p \in Paths : Construct(r, p)
    \/ \E r \in RunnerIds, s \in BOOLEAN : Map(r, s)
    \/ \E r \in RunnerIds : Annotate(r)
    \/ \E q \in BOOLEAN : Check(q)

Spec == Init /\ [][Next]_vars


\* ------------------------------------------------------------ properties
Calls == 1..Len(history)

Last == history[Len(history)]

\* The events written by the i-th call.
CallOutput(i) ==
    SubSeq(events, history[i].from + 1,
           IF i < Len(history) THEN history[i + 1].from ELSE Len(events))

IsStdout(e) == e.chan = "stdout"

IsCritical(e) == e.chan = "critical"

Critical(s) == [chan |-> "critical", msg |-> s]

Stdout(s) == [chan |-> "stdout", msg |-> s]

\* Some call before the i-th one was a map() on runner r whose external
\* invocation succeeded.
MappedBefore(r, i) ==
    \E j \in 1..(i - 1) :
        history[j].op = "map" /\ history[j].r = r /\ history[j].flag

\* The step is a call of op (one more entry in the call trace).
CallStep(op) ==
    /\ Len(history') = Len(history) + 1
    /\ history'[Len(history')].op = op

\* C1: annotate() on a runner with no earlier successful map() (fresh, or
\* after maps that all failed) logs the critical message "Annotation needs
\* mapped files" as the last thing written and ends the process with exit
\* status 1.
C1_AnnotateUnmappedExits ==
    \A i \in Calls :
        (history[i].op = "annotate" /\ ~MappedBefore(history[i].r, i)) =>
            /\ history[i].outcome = "exit"
            /\ i = Len(history)
            /\ exitStatus = <<1>>
            /\ Len(events) > 0
            /\ events[Len(events)] = Critical(NeedsMapped)

\* C1 witness: annotate() was called on a runner whose only map() failed.
C1_Witness ==
    /\ Len(history) >= 3
    /\ Last.op = "annotate"
    /\ history[Len(history) - 1].op = "map"
    /\ history[Len(history) - 1].r = Last.r
    /\ ~history[Len(history) - 1].flag
    /\ ~MappedBefore(Last.r, Len(history))
    /\ exitStatus = <<1>>

\* C2: a map() whose external invocation failed does not return normally
\* to its caller (it signals the failure as an error).
C2_MapFailureSignalled ==
    \A i \in Calls :
        (history[i].op = "map" /\ ~history[i].flag) =>
            history[i].outcome # "return"

\* C3: a map() whose external invocation failed leaves mappedfiles of its
\* runner as it was before the call.
C3_MapFailureKeepsMappedfiles ==
    [][(CallStep("map") /\ ~history'[Len(history')].flag) =>
         LET r == history'[Len(history')].r
         IN  runners'[r].mappedfiles = runners[r].mappedfiles]_vars

\* C3 witness: the last call was a failing map() on a runner that is still
\* Initialized.
C3_Witness ==
    /\ Len(history) > 0
    /\ Last.op = "map"
    /\ ~Last.flag
    /\ runners[Last.r].mappedfiles = None

\* C4: after a map() whose external invocation succeeded, mappedfiles of
\* its runner is set: not None and not the empty string.
C4_MapSuccessSetsMappedfiles ==
    [][(CallStep("map") /\ history'[Len(history')].flag) =>
         LET r == history'[Len(history')].r
         IN  /\ history'[Len(history')].outcome = "return"
             /\ runners'[r].mappedfiles # None
             /\ runners'[r].mappedfiles # ""]_vars

\* C4 witness: the last call was a successful map() on an Initialized
\* runner, which is now Mapped.
C4_Witness ==
    /\ Len(history) > 0
    /\ Last.op = "map"
    /\ Last.flag
    /\ ~MappedBefore(Last.r, Len(history))
    /\ runners[Last.r].mappedfiles = SomePath

C5_Returns ==
    \A i \in Calls :
        (history[i].op = "annotate" /\ MappedBefore(history[i].r, i)) =>
            /\ history[i].outcome = "return"
            /\ (i = Len(history) => exitStatus = Running)

C5_ExitsExactlyWhenUnset ==
    CallStep("annotate") =>
        LET c == history'[Len(history')]
        IN  /\ (c.outcome = "exit") <=> (runners[c.r].mappedfiles = None)
            /\ (c.outcome = "exit") <=> (exitStatus' # Running)

\* C5: every annotate() made after a successful map() on the same runner
\* returns without ending the process, and an annotate() ends the process
\* exactly when mappedfiles of its runner is unset.
C5_AnnotateAfterMapReturns ==
    []C5_Returns /\ [][C5_ExitsExactlyWhenUnset]_vars

\* C5 witness: annotate() returned on a runner mapped earlier, with other
\* calls in between.
C5_Witness ==
    /\ Len(history) >= 4
    /\ Last.op = "annotate"
    /\ Last.outcome = "return"
    /\ MappedBefore(Last.r, Len(history) - 1)
    /\ exitStatus = Running

\* C6: once mappedfiles of a runner is set, it stays set in every later
\* state.
C6_MappedfilesNeverCleared ==
    [][\A r \in DOMAIN runners :
         runners[r].mappedfiles # None =>
            (r \in DOMAIN runners' /\ runners'[r].mappedfiles # None)]_vars

\* C6 witness: a runner was mapped, then a map() on it failed, and its
\* mappedfiles is still set.
C6_Witness ==
    /\ Len(history) >= 3
    /\ Last.op = "map"
    /\ ~Last.flag
    /\ MappedBefore(Last.r, Len(history))
    /\ runners[Last.r].mappedfiles # None

\* C7: a newly constructed runner has mappedfiles unset and holds the given
\* sheet path.
C7_ConstructInitialized ==
    [][CallStep("init") =>
         LET c == history'[Len(history')]
         IN  /\ c.r \notin DOMAIN runners
             /\ c.r \in DOMAIN runners'
             /\ runners'[c.r].mappedfiles = None
             /\ runners'[c.r].tsv = c.path]_vars

\* C7 witness: two runners were constructed with different sheet paths.
C7_Witness ==
    /\ Len(history) > 0
    /\ Last.op = "init"
    /\ \E r \in DOMAIN runners :
          r # Last.r /\ runners[r].tsv \in Paths /\ runners[r].tsv # Last.path
    /\ runners[Last.r] = [tsv |-> Last.path, mappedfiles |-> None]

\* C8: check(quiet=True) prints the greeting and nothing else on standard
\* output; check(quiet=False) prints the greeting and then "THIS IS LOUD";
\* the greeting is the first thing the call writes, before the output of
\* either sub-check.
C8_CheckOutput ==
    \A i \in Calls :
        history[i].op = "check" =>
            LET out == CallOutput(i)
            IN  /\ SelectSeq(out, IsStdout) =
                      IF history[i].flag THEN <<Stdout(HelloWorld)>>
                      ELSE <<Stdout(HelloWorld), Stdout(Loud)>>
                /\ Len(out) > 0
                /\ out[1] = Stdout(HelloWorld)

\* C8 witness: a verbose check followed by a quiet one.
C8_Witness ==
    /\ Len(history) >= 2
    /\ Last.op = "check"
    /\ Last.flag
    /\ history[Len(history) - 1].op = "check"
    /\ ~history[Len(history) - 1].flag
    /\ Len(SelectSeq(CallOutput(Len(history)), IsCritical)) > 0

SingularityInvoked(i) ==
    \E k \in 1..Len(CallOutput(i)) :
        CallOutput(i)[k] = Critical(SingularityMsg)

C10_SubchecksLogAndPass ==
    \A i \in Calls :
        history[i].op = "check" =>
            /\ SelectSeq(CallOutput(i), IsCritical) =
                   <<Critical(NextflowMsg), Critical(SingularityMsg)>>
            /\ history[i].nfRet
            /\ history[i].sgRet
            /\ history[i].outcome = "return"
            /\ (i = Len(history) => exitStatus = Running)

\* C10 witness: a quiet check followed by a verbose one, the process still
\* running.
C10_Witness ==
    /\ Len(history) >= 2
    /\ Last.op = "check"
    /\ ~Last.flag
    /\ history[Len(history) - 1].op = "check"
    /\ history[Len(history) - 1].flag
    /\ exitStatus = Running

====
